---- MODULE Spec2Model ----
(***************************************************************************)
(* The voice interaction coordinator of AIPex: the useVoiceMode hook       *)
(* (use-voice-mode.ts), the AudioManager adapter and the VoiceMode         *)
(* component that hosts them (index.tsx); and, independent of these, the   *)
(* AgentConfigManager (agent-config.ts).                                   *)
(*                                                                         *)
(* Everything runs on one event loop.  One action of the model is one      *)
(* macrotask of the program: a callback together with every function it    *)
(* calls and every promise continuation (microtask) it releases.           *)
(*                                                                         *)
(* Amplitudes are in hundredths (0.10 is 10), times in milliseconds.       *)
(***************************************************************************)
EXTENDS Integers, Sequences, FiniteSets, TLC

\* ---------------------------------------------------------------- constants
ENTER_THRESHOLD == 10
EXIT_THRESHOLD == 3
HISTORY_SIZE == 5
ENTER_DELAY == 300
EXIT_DELAY == 1500
RESPONSE_DELAY == 1000

\* Values of the first render of VoiceMode.  The mount effect of the hook has
\* an empty dependency list, so the callbacks it registers with the
\* AudioManager keep the `config` of the first render for the whole session:
\* its onTextRecognized closes over the first render's voiceEnabled,
\* micEnabled, speak and startListening, and those two close over the first
\* render's isInitialized.
FirstRenderIsInitialized == FALSE
FirstRenderVoiceEnabled == TRUE
FirstRenderMicEnabled == TRUE

\* ------------------------------------------------------------------- bounds
MaxRecognizers == 2
MaxUtterances == 2
MaxMicRequests == 1
MaxResponses == 1
MaxInvocations == 3

\* Amplitude samples: silence, a level between the thresholds, a loud one.
Levels == {0, 5, 60}
\* Transcript texts: a blank one and two commands.
Texts == {" ", "a", "b"}

VoiceStates == {"idle", "listening", "processing", "speaking"}

NoTimer == 0 - 1
\* A timer that clearTimeout() cancelled while the ref kept its handle.
ClearedTimer == 0 - 2

RECURSIVE GCD(_, _)
GCD(a, b) == IF b = 0 THEN a ELSE GCD(b, a % b)
\* The largest time step that lands on every deadline.
TimeStep == GCD(ENTER_DELAY, GCD(EXIT_DELAY, RESPONSE_DELAY))

Min(a, b) == IF a < b THEN a ELSE b

VARIABLES
    \* useVoiceMode
    voiceState,              \* useState: the conversation state
    voiceStateRef,           \* useRef mirror read by the audio callback and timer
    renderedState,           \* voiceState of the last committed render
    isInitialized,
    error,
    lastFinalTranscriptRef,
    audioLevelHistoryRef,
    stateChangeTimerRef,     \* NoTimer, ClearedTimer or the time left
    pendingTimers,           \* debounce timers set, not yet run or cleared
    timerScheduledIn,        \* the state the pending timer was set in
    \* VoiceMode
    mounted,
    micEnabled,
    voiceEnabled,
    effectPending,           \* the auto-start effect's dependencies changed
    responseTimers,          \* time left of each pending response setTimeout
    particleSystem,          \* particleSystemRef.current !== null
    \* platform and configuration
    supported,               \* AudioManager.isSupported()
    continuous,              \* config.continuous
    \* AudioManager
    audioContext,            \* this.audioContext !== null
    loops,                   \* requestAnimationFrame analysis loops running
    streams,                 \* microphone streams whose tracks are live
    animationId,             \* this.animationId !== null
    lastListenCall,          \* the AudioManager's last call: "start", "stop"
    micRequests,             \* getUserMedia calls waiting for the user
    recognition,             \* this.recognition: 0 (null) or a recognizer
    recognizers,             \* engine status of each SpeechRecognition object
    utterances,              \* speechSynthesis: each utterance and its promise
    \* history variables
    calls,                   \* host callbacks and platform calls of the last step
    levelRun,                \* how long the smoothed level has been high / low
    prevFinal,               \* text of the previous final transcript event
    \* agent-config.ts
    DEFAULT_AGENT_CONFIGS,   \* the exported object, as it is now
    storage,                 \* what the storage holds under STORAGE_KEY
    invocations,             \* the calls of AgentConfigManager's methods
    afterReset               \* a reset completed and no update began since

voiceVars == <<voiceState, voiceStateRef, renderedState, isInitialized, error,
          lastFinalTranscriptRef, audioLevelHistoryRef, stateChangeTimerRef,
          pendingTimers, timerScheduledIn,
          mounted, micEnabled, voiceEnabled, effectPending, responseTimers,
          particleSystem,
          supported, continuous, audioContext, loops, streams, animationId,
          lastListenCall, micRequests,
          recognition, recognizers, utterances,
          calls, levelRun, prevFinal>>

configVars == <<DEFAULT_AGENT_CONFIGS, storage, invocations, afterReset>>

vars == <<voiceVars, configVars>>

Recognizers == 1..MaxRecognizers
Utterances == 1..MaxUtterances

\* The program state as one record, so that a handler is a function from
\* state to state and handlers compose the way the calls in the code do.
\* `ok` turns FALSE when a handler would exceed a bound of the model.
Cur ==
    [voiceState |-> voiceState, voiceStateRef |-> voiceStateRef,
     renderedState |-> renderedState, isInitialized |-> isInitialized,
     error |-> error, lastFinalTranscriptRef |-> lastFinalTranscriptRef,
     audioLevelHistoryRef |-> audioLevelHistoryRef,
     stateChangeTimerRef |-> stateChangeTimerRef,
     pendingTimers |-> pendingTimers,
     timerScheduledIn |-> timerScheduledIn,
     mounted |-> mounted, micEnabled |-> micEnabled,
     voiceEnabled |-> voiceEnabled, effectPending |-> effectPending,
     responseTimers |-> responseTimers,
     particleSystem |-> particleSystem,
     supported |-> supported, continuous |-> continuous,
     audioContext |-> audioContext, loops |-> loops, streams |-> streams,
     animationId |-> animationId, lastListenCall |-> lastListenCall,
     micRequests |-> micRequests, recognition |-> recognition,
     recognizers |-> recognizers, utterances |-> utterances,
     calls |-> <<>>, levelRun |-> levelRun, prevFinal |-> prevFinal,
     ok |-> TRUE]

\* One macrotask taking the program from Cur to s.
Step(s) ==
    /\ s.ok
    /\ voiceState' = s.voiceState
    /\ voiceStateRef' = s.voiceStateRef
    /\ renderedState' = s.renderedState
    /\ isInitialized' = s.isInitialized
    /\ error' = s.error
    /\ lastFinalTranscriptRef' = s.lastFinalTranscriptRef
    /\ audioLevelHistoryRef' = s.audioLevelHistoryRef
    /\ stateChangeTimerRef' = s.stateChangeTimerRef
    /\ pendingTimers' = s.pendingTimers
    /\ timerScheduledIn' = s.timerScheduledIn
    /\ mounted' = s.mounted
    /\ micEnabled' = s.micEnabled
    /\ voiceEnabled' = s.voiceEnabled
    /\ effectPending' = s.effectPending
    /\ responseTimers' = s.responseTimers
    /\ particleSystem' = s.particleSystem
    /\ supported' = s.supported
    /\ continuous' = s.continuous
    /\ audioContext' = s.audioContext
    /\ loops' = s.loops
    /\ streams' = s.streams
    /\ animationId' = s.animationId
    /\ lastListenCall' = s.lastListenCall
    /\ micRequests' = s.micRequests
    /\ recognition' = s.recognition
    /\ recognizers' = s.recognizers
    /\ utterances' = s.utterances
    /\ calls' = s.calls
    /\ levelRun' = s.levelRun
    /\ prevFinal' = s.prevFinal
    /\ UNCHANGED configVars

Call(s, name, arg) == [s EXCEPT !.calls = Append(@, <<name, arg>>)]

Count(cs, name) == Cardinality({i \in 1..Len(cs) : cs[i][1] = name})

\* ------------------------------------------------------------ React state
\* setVoiceState queues the new state.  (React drops the update of an
\* unmounted component; nothing reads the state of one, so the model does not
\* tell the two apart.)
setVoiceState(s, v) == [s EXCEPT !.voiceState = v]

setError(s, e) == [s EXCEPT !.error = e]

\* ----------------------------------------------------------- AudioManager
FreeRecognizers(s) == {r \in Recognizers : s.recognizers[r] = "inactive"}

MinOf(S) == CHOOSE x \in S : \A y \in S : x <= y

\* startListening after initAudioContext succeeded: a new SpeechRecognition
\* replaces this.recognition (the old object is not stopped) and is started.
NewRecognizer(s) ==
    IF FreeRecognizers(s) = {} THEN [s EXCEPT !.ok = FALSE]
    ELSE LET r == MinOf(FreeRecognizers(s)) IN
         Call([s EXCEPT !.recognition = r, !.recognizers[r] = "running"],
              "recognition.start", "")

\* AudioManager.startListening up to its first suspension: with an audio
\* context the await returns in a microtask of the same macrotask, without
\* one the call waits for getUserMedia.
AM_startListening(s) ==
    LET a == [s EXCEPT !.lastListenCall = "start"] IN
    IF a.audioContext THEN NewRecognizer(a)
    ELSE IF a.micRequests >= MaxMicRequests THEN [a EXCEPT !.ok = FALSE]
    ELSE Call([a EXCEPT !.micRequests = @ + 1], "getUserMedia", "")

AM_stopListening(s) ==
    LET a == [s EXCEPT !.lastListenCall = "stop"] IN
    IF a.recognition # 0
    THEN Call([a EXCEPT
                 !.recognizers[a.recognition] =
                     IF @ = "running" THEN "stopping" ELSE @,
                 !.recognition = 0],
              "recognition.stop", "")
    ELSE a

\* speechSynthesis.cancel(): every utterance being spoken is interrupted; its
\* end or error event is delivered later.
SynthesisCancel(s) ==
    Call([s EXCEPT !.utterances =
            [u \in Utterances |->
                IF @[u].status = "speaking"
                THEN [@[u] EXCEPT !.status = "cancelled"] ELSE @[u]]],
         "synthesis.cancel", "")

AM_stopSpeaking(s) == SynthesisCancel(s)

FreeUtterances(s) == {u \in Utterances : s.utterances[u].status = "free"}

\* An AudioManager.speak that queues the utterance behind the one playing.
AM_speakQueues(s, mic, thenMic) ==
    IF FreeUtterances(s) = {} THEN [s EXCEPT !.ok = FALSE]
    ELSE LET u == MinOf(FreeUtterances(s)) IN
         Call([s EXCEPT !.utterances[u] =
                 [status |-> "speaking", mic |-> mic, thenMic |-> thenMic]],
              "synthesis.speak", "")

\* AudioManager.speak: cancel, then queue a new utterance.  `mic` is the
\* micEnabled the caller's onSpeechComplete closed over, `thenMic` that of
\* the .then continuation the caller attached ("none" without one).
AM_speak(s, mic, thenMic) ==
    LET c == SynthesisCancel(s) IN
    IF FreeUtterances(c) = {} THEN [c EXCEPT !.ok = FALSE]
    ELSE LET u == MinOf(FreeUtterances(c)) IN
         Call([c EXCEPT !.utterances[u] =
                 [status |-> "speaking", mic |-> mic, thenMic |-> thenMic]],
              "synthesis.speak", "")

\* An error callback that also ends listening.
onErrorCallbackResets(s, msg) ==
    LET a == [setVoiceState(s, "idle") EXCEPT !.voiceStateRef = "idle"]
    IN Call(setError(a, msg), "onError", msg)

\* The hook's error callback registered with the AudioManager.
onErrorCallback(s, msg) == Call(setError(s, msg), "onError", msg)

\* ------------------------------------------------------------ useVoiceMode
\* A startListening without its guard.
startListeningUnguarded(s, init) ==
    LET a == setVoiceState(setError(s, "none"), "idle")
        b == [a EXCEPT !.voiceStateRef = "idle",
                       !.lastFinalTranscriptRef = ""]
    IN AM_startListening(b)

\* startListening of a render whose isInitialized was `init`.  (The other
\* half of its guard, audioManagerRef.current, is set by the same effect that
\* sets isInitialized.)
startListening(s, init) ==
    IF ~init THEN s
    ELSE LET a == setVoiceState(setError(s, "none"), "idle")
             b == [a EXCEPT !.voiceStateRef = "idle",
                            !.lastFinalTranscriptRef = ""]
         IN AM_startListening(b)

\* A catch block that tries again.
startListeningFailedRetries(s) ==
    AM_startListening(
        [setVoiceState(setError(s, "Failed to access microphone"), "idle")
            EXCEPT !.voiceStateRef = "idle"])

\* The catch block of startListening.
startListeningFailed(s) ==
    [setVoiceState(setError(s, "Failed to access microphone"), "idle")
        EXCEPT !.voiceStateRef = "idle"]

stopListening(s) ==
    IF ~s.isInitialized THEN s
    ELSE setVoiceState(AM_stopListening(s), "idle")

stopSpeaking(s) ==
    IF ~s.isInitialized THEN s
    ELSE setVoiceState(AM_stopSpeaking(s), "idle")

\* The .then continuation VoiceMode attaches to speak(): setPendingResponse
\* and, with the microphone enabled in its closure, startListening.
ThenContinuation(s, thenMic, init) ==
    IF thenMic = "on" THEN startListening(s, init) ELSE s

\* speak of a render whose isInitialized was `init`, up to its await.  When
\* the guard returns, the promise is already resolved and the caller's .then
\* continuation runs in the same macrotask.
speak(s, init, mic, thenMic) ==
    IF ~init THEN ThenContinuation(s, thenMic, init)
    ELSE AM_speak([setVoiceState(s, "speaking")
                      EXCEPT !.voiceStateRef = "speaking"], mic, thenMic)

\* speak after its await resolved: the utterance ended.
speakResolved(s, mic, thenMic) ==
    LET a == [setVoiceState(s, "idle") EXCEPT !.voiceStateRef = "idle"]
        b == Call(a, "onSpeechComplete", "")
        \* VoiceMode.onSpeechComplete
        c == IF mic THEN startListening(b, TRUE) ELSE b
    IN ThenContinuation(c, thenMic, TRUE)

\* A catch block that records the error and leaves the state alone.
speakRejectedLeavesState(s, thenMic) ==
    ThenContinuation(setError(s, "Failed to speak"), thenMic, TRUE)

\* speak after its await rejected: the catch block.  The async function
\* itself still resolves, so a .then continuation runs here too.
speakRejected(s, thenMic) ==
    LET a == [setVoiceState(setError(s, "Failed to speak"), "idle")
                 EXCEPT !.voiceStateRef = "idle"]
    IN ThenContinuation(a, thenMic, TRUE)

RECURSIVE Sum(_)
Sum(h) == IF h = <<>> THEN 0 ELSE Head(h) + Sum(Tail(h))

\* avgLevel > ENTER_THRESHOLD and avgLevel < EXIT_THRESHOLD, the average
\* being the sum over max(length, 1).
AboveEnter(h) == Sum(h) > ENTER_THRESHOLD * (IF Len(h) = 0 THEN 1 ELSE Len(h))
BelowExit(h) == Sum(h) < EXIT_THRESHOLD * (IF Len(h) = 0 THEN 1 ELSE Len(h))

\* desiredState / confirmedState: the state the level asks for.
Indicated(state, h) ==
    IF state = "idle" /\ AboveEnter(h) THEN "listening"
    ELSE IF state = "listening" /\ BelowExit(h) THEN "idle"
    ELSE state

PushLevel(h, level) ==
    LET h1 == Append(h, level) IN
    IF Len(h1) > HISTORY_SIZE THEN Tail(h1) ELSE h1

DebounceDelay(current, desired) ==
    IF current = "listening" /\ desired = "idle" THEN EXIT_DELAY ELSE ENTER_DELAY

\* History variable: after a sample, whether the smoothed level is above
\* ENTER ("high") or below EXIT ("low"), for how long it has been, and the
\* conversation state when it got there.
RunAfter(run, h, state) ==
    LET dir == IF AboveEnter(h) THEN "high"
               ELSE IF BelowExit(h) THEN "low" ELSE "none"
    IN IF dir = run.dir THEN run
       ELSE [dir |-> dir, ms |-> 0,
             from |-> IF dir = "none" THEN "idle" ELSE state]

\* clearTimeout(stateChangeTimerRef.current); the handle itself stays.
ClearTimer(s) ==
    IF s.stateChangeTimerRef >= 0
    THEN [s EXCEPT !.pendingTimers = @ - 1, !.timerScheduledIn = "none"]
    ELSE s

\* The amplitude goes to the particle system, once there is one.
updateFrequency(s, level) ==
    IF s.particleSystem THEN Call(s, "updateFrequency", level) ELSE s

\* An audio callback that sets a timer without looking at the handle.
onAudioDataAlwaysSchedules(s0, level) ==
    LET s == updateFrequency(s0, level)
        currentState == s.voiceStateRef IN
    IF currentState = "speaking" \/ currentState = "processing" THEN s
    ELSE
    LET h == PushLevel(s.audioLevelHistoryRef, level)
        desiredState == Indicated(currentState, h)
        a == [s EXCEPT !.audioLevelHistoryRef = h,
                       !.levelRun = RunAfter(@, h, s.voiceState)]
    IN IF desiredState # currentState
       THEN [a EXCEPT !.stateChangeTimerRef =
                          DebounceDelay(currentState, desiredState),
                      !.pendingTimers = @ + 1,
                      !.timerScheduledIn = currentState]
       ELSE IF a.stateChangeTimerRef # NoTimer
            THEN [ClearTimer(a) EXCEPT !.stateChangeTimerRef = NoTimer]
            ELSE a

\* The callback registered with audioManager.onAudioData.
onAudioData(s0, level) ==
    LET s == updateFrequency(s0, level)
        currentState == s.voiceStateRef IN
    IF currentState = "speaking" \/ currentState = "processing" THEN s
    ELSE
    LET h == PushLevel(s.audioLevelHistoryRef, level)
        desiredState == Indicated(currentState, h)
        a == [s EXCEPT !.audioLevelHistoryRef = h,
                       !.levelRun = RunAfter(@, h, s.voiceState)]
    IN IF desiredState # currentState
       THEN IF a.stateChangeTimerRef = NoTimer
            THEN [a EXCEPT !.stateChangeTimerRef =
                               DebounceDelay(currentState, desiredState),
                           !.pendingTimers = @ + 1,
                           !.timerScheduledIn = currentState]
            ELSE a
       ELSE IF a.stateChangeTimerRef # NoTimer
            THEN [ClearTimer(a) EXCEPT !.stateChangeTimerRef = NoTimer]
            ELSE a

\* The debounce timer's callback.
debounceTimer(s) ==
    LET ref == s.voiceStateRef
        confirmedState == Indicated(ref, s.audioLevelHistoryRef)
        a == IF confirmedState # ref /\ ref # "speaking" /\ ref # "processing"
             THEN setVoiceState(s, confirmedState) ELSE s
    IN [a EXCEPT !.stateChangeTimerRef = NoTimer, !.pendingTimers = @ - 1,
                 !.timerScheduledIn = "none"]

Trim(text) == IF text = " " THEN "" ELSE text

\* An onTextRecognized that keeps the recognizer going.
onTextRecognizedKeepsListening(s, text) ==
    LET a == Call(s, "onTextRecognized", text)
        b == setVoiceState(a, "processing")
        c == Call(b, "onSubmit", text)
    IN IF Len(c.responseTimers) >= MaxResponses THEN [c EXCEPT !.ok = FALSE]
       ELSE [c EXCEPT !.responseTimers = Append(@, RESPONSE_DELAY)]

\* VoiceMode's onTextRecognized, as closed over by the first render.
onTextRecognized(s, text) ==
    LET a == Call(s, "onTextRecognized", text)
        b == setVoiceState(stopListening(a), "processing")
        c == Call(b, "onSubmit", text)
    IN IF Len(c.responseTimers) >= MaxResponses THEN [c EXCEPT !.ok = FALSE]
       ELSE [c EXCEPT !.responseTimers = Append(@, RESPONSE_DELAY)]

\* The callback registered with audioManager.onTranscript.
onTranscript(s, text, isFinal) ==
    LET g == IF isFinal
             THEN [s EXCEPT !.prevFinal = text]
             ELSE s
    IN IF isFinal /\ Trim(text) # "" /\ text # s.lastFinalTranscriptRef
       THEN onTextRecognized([g EXCEPT !.lastFinalTranscriptRef = text], text)
       ELSE g

\* The response setTimeout of onTextRecognized (first-render closure).
responseTimeout(s) ==
    IF FirstRenderVoiceEnabled
    THEN speak(s, FirstRenderIsInitialized, FirstRenderMicEnabled,
               IF FirstRenderMicEnabled THEN "on" ELSE "off")
    ELSE setVoiceState(s, "idle")

\* AudioManager.destroy.  The fields it tests are set to null at its end,
\* all but animationId; this.stream is the stream granted last.
destroy(s) ==
    LET a == AM_stopSpeaking(AM_stopListening(s))
        b == IF a.animationId THEN Call(a, "cancelAnimationFrame", "") ELSE a
        c == IF b.audioContext
             THEN Call(Call(b, "microphone.disconnect", ""),
                       "audioContext.close", "")
             ELSE b
        d == IF c.audioContext /\ c.streams > 0
             THEN Call([c EXCEPT !.streams = @ - 1], "track.stop", "")
             ELSE c
    IN [d EXCEPT !.loops = 0,
                 !.audioContext = FALSE,
                 !.recognition = 0]

\* ---------------------------------------------------- AgentConfigManager
\* agent-config.ts.  An AgentConfig is modelled by two of its six fields,
\* model and temperature (in hundredths); the others are copied the same way.
AgentTypes == {"planner", "navigator", "visual", "analyst", "executor"}

\* The object literal DEFAULT_AGENT_CONFIGS is initialized with.
OriginalDefaults ==
    [a \in AgentTypes |->
        [model |-> "anthropic/claude-3.5-sonnet",
         temperature |-> CASE a = "planner" -> 70
                           [] a = "navigator" -> 10
                           [] a = "visual" -> 30
                           [] a = "analyst" -> 40
                           [] a = "executor" -> 20]]

\* The agent types the calls below update.
UpdatedTypes == {"planner", "visual"}

\* Arguments of updateConfig: a Partial<AgentConfig>.
ConfigPatches == {[model |-> "openai/gpt-4o"], [temperature |-> 90]}

\* Arguments of updateConfigs: a Partial<AgentConfigs>.
ConfigsPatches ==
    {[a \in {t} |-> [model |-> "openai/gpt-4o", temperature |-> 50]] :
        t \in UpdatedTypes}

Nothing == [k \in {} |-> ""]

\* The object spread {...a, ...b}.
Spread(a, b) ==
    [k \in DOMAIN a \cup DOMAIN b |-> IF k \in DOMAIN b THEN b[k] ELSE a[k]]

Invocations == 1..MaxInvocations

\* getConfigs once storage.get has settled: with a stored value a new object,
\* without one (or when the read failed) DEFAULT_AGENT_CONFIGS itself.
getConfigs(read, defaults) ==
    IF read.present
    THEN [isDefaults |-> FALSE, configs |-> Spread(defaults, read.value)]
    ELSE [isDefaults |-> TRUE, configs |-> defaults]

\* updateConfigs between its two awaits.
updateConfigs(current, configs) == Spread(current, configs)

\* updateConfig between its two awaits: the assignment to configs[agentType].
updateConfig(configs, agentType, config) ==
    [configs EXCEPT ![agentType] = Spread(@, config)]

\* The module is loaded; the storage is empty or holds what an earlier
\* session stored.
InitAgentConfig ==
    /\ DEFAULT_AGENT_CONFIGS = OriginalDefaults
    /\ storage \in {[present |-> FALSE, value |-> Nothing],
                    [present |-> TRUE, value |-> OriginalDefaults]}
    /\ invocations =
           [c \in Invocations |->
               [op |-> "none", agentType |-> "none", config |-> Nothing,
                configs |-> Nothing, pc |-> "free", value |-> Nothing,
                setSeq |-> 0, result |-> Nothing]]
    /\ afterReset = FALSE

\* Calls are numbered in the order they are made.
CanCall(c) ==
    /\ invocations[c].pc = "free"
    /\ c > 1 => invocations[c - 1].pc # "free"

\* A call that writes is under way, other than c.
WriteInFlight(c) ==
    \E d \in Invocations \ {c} :
        /\ invocations[d].pc \in {"get", "set"}
        /\ invocations[d].op # "getConfigs"

\* The number the next storage.set gets: the storage handles the writes of
\* one page in the order they were made.
NextSetSeq ==
    Cardinality({d \in Invocations : invocations[d].setSeq > 0}) + 1

\* getConfigs() is called: storage.get is under way.
CallGetConfigs(c) ==
    /\ CanCall(c)
    /\ invocations' = [invocations EXCEPT ![c].op = "getConfigs",
                                          ![c].pc = "get"]
    /\ UNCHANGED <<DEFAULT_AGENT_CONFIGS, storage, afterReset, voiceVars>>

\* updateConfigs(configs) is called.
CallUpdateConfigs(c, configs) ==
    /\ CanCall(c)
    /\ invocations' = [invocations EXCEPT ![c].op = "updateConfigs",
                                          ![c].configs = configs,
                                          ![c].pc = "get"]
    /\ afterReset' = FALSE
    /\ UNCHANGED <<DEFAULT_AGENT_CONFIGS, storage, voiceVars>>

\* updateConfig(agentType, config) is called.
CallUpdateConfig(c, agentType, config) ==
    /\ CanCall(c)
    /\ invocations' = [invocations EXCEPT ![c].op = "updateConfig",
                                          ![c].agentType = agentType,
                                          ![c].config = config,
                                          ![c].pc = "get"]
    /\ afterReset' = FALSE
    /\ UNCHANGED <<DEFAULT_AGENT_CONFIGS, storage, voiceVars>>

\* resetToDefaults() is called: storage.set is handed DEFAULT_AGENT_CONFIGS.
CallResetToDefaults(c) ==
    /\ CanCall(c)
    /\ invocations' = [invocations EXCEPT ![c].op = "resetToDefaults",
                                          ![c].value = DEFAULT_AGENT_CONFIGS,
                                          ![c].setSeq = NextSetSeq,
                                          ![c].pc = "set"]
    /\ afterReset' = FALSE
    /\ UNCHANGED <<DEFAULT_AGENT_CONFIGS, storage, voiceVars>>

\* The call continues after `await storage.get` with what was read.
AfterGet(c, read) ==
    LET inv == invocations[c]
        got == getConfigs(read, DEFAULT_AGENT_CONFIGS)
    IN CASE inv.op = "getConfigs" ->
              /\ invocations' = [invocations EXCEPT ![c].result = got.configs,
                                                    ![c].pc = "done"]
              /\ UNCHANGED DEFAULT_AGENT_CONFIGS
         [] inv.op = "updateConfigs" ->
              /\ invocations' =
                     [invocations EXCEPT
                         ![c].value = updateConfigs(got.configs, inv.configs),
                         ![c].setSeq = NextSetSeq,
                         ![c].pc = "set"]
              /\ UNCHANGED DEFAULT_AGENT_CONFIGS
         [] inv.op = "updateConfig" ->
              LET configs == updateConfig(got.configs, inv.agentType,
                                          inv.config)
              IN /\ invocations' = [invocations EXCEPT ![c].value = configs,
                                                       ![c].setSeq = NextSetSeq,
                                                       ![c].pc = "set"]
                 /\ DEFAULT_AGENT_CONFIGS' =
                        IF got.isDefaults THEN configs
                        ELSE DEFAULT_AGENT_CONFIGS

\* storage.get resolves with what the storage holds.
StorageGetResolves(c) ==
    /\ invocations[c].pc = "get"
    /\ AfterGet(c, storage)
    /\ UNCHANGED <<storage, afterReset, voiceVars>>

\* storage.get rejects: getConfigs catches and returns the defaults.
StorageGetRejects(c) ==
    /\ invocations[c].pc = "get"
    /\ AfterGet(c, [present |-> FALSE, value |-> Nothing])
    /\ UNCHANGED <<storage, afterReset, voiceVars>>

\* The write of c is the oldest one pending.
OldestSet(c) ==
    /\ invocations[c].pc = "set"
    /\ \A d \in Invocations :
           invocations[d].pc = "set"
               => invocations[c].setSeq <= invocations[d].setSeq

\* storage.set resolves: the value it was handed is stored.
StorageSetResolves(c) ==
    /\ OldestSet(c)
    /\ storage' = [present |-> TRUE, value |-> invocations[c].value]
    /\ invocations' = [invocations EXCEPT ![c].pc = "done"]
    /\ afterReset' = IF invocations[c].op = "resetToDefaults"
                     THEN ~WriteInFlight(c) ELSE afterReset
    /\ UNCHANGED <<DEFAULT_AGENT_CONFIGS, voiceVars>>

\* storage.set rejects: the method logs and rethrows.
StorageSetRejects(c) ==
    /\ OldestSet(c)
    /\ invocations' = [invocations EXCEPT ![c].pc = "failed"]
    /\ UNCHANGED <<DEFAULT_AGENT_CONFIGS, storage, afterReset, voiceVars>>

NextAgentConfig ==
    \/ \E c \in Invocations : CallGetConfigs(c)
    \/ \E c \in Invocations, configs \in ConfigsPatches :
          CallUpdateConfigs(c, configs)
    \/ \E c \in Invocations, agentType \in UpdatedTypes,
          config \in ConfigPatches : CallUpdateConfig(c, agentType, config)
    \/ \E c \in Invocations : CallResetToDefaults(c)
    \/ \E c \in Invocations : StorageGetResolves(c)
    \/ \E c \in Invocations : StorageGetRejects(c)
    \/ \E c \in Invocations : StorageSetResolves(c)
    \/ \E c \in Invocations : StorageSetRejects(c)

\* ---------------------------------------------------------------- actions
InitVoice ==
    /\ voiceState = "idle"
    /\ voiceStateRef = "idle"
    /\ renderedState = "idle"
    /\ isInitialized = FALSE
    /\ error = "none"
    /\ lastFinalTranscriptRef = ""
    /\ audioLevelHistoryRef = <<>>
    /\ stateChangeTimerRef = NoTimer
    /\ pendingTimers = 0
    /\ timerScheduledIn = "none"
    /\ mounted = TRUE
    /\ micEnabled = TRUE
    /\ voiceEnabled = TRUE
    /\ effectPending = FALSE
    /\ responseTimers = <<>>
    /\ particleSystem = FALSE
    /\ supported \in BOOLEAN
    /\ continuous \in BOOLEAN
    /\ audioContext = FALSE
    /\ loops = 0
    /\ streams = 0
    /\ animationId = FALSE
    /\ lastListenCall = "none"
    /\ micRequests = 0
    /\ recognition = 0
    /\ recognizers = [r \in Recognizers |-> "inactive"]
    /\ utterances = [u \in Utterances |->
                        [status |-> "free", mic |-> FALSE, thenMic |-> "none"]]
    /\ calls = <<>>
    /\ levelRun = [dir |-> "none", ms |-> 0, from |-> "idle"]
    /\ prevFinal = "<none>"

\* A voice session; nothing has been stored for the agents.
Init == InitVoice /\ InitAgentConfig /\ ~storage.present

\* The hook's mount effect: without the speech APIs it reports the error and
\* stops; otherwise it creates the AudioManager, registers the callbacks and
\* sets isInitialized, which re-renders VoiceMode.
MountEffect ==
    /\ mounted /\ ~isInitialized /\ error = "none"
    /\ IF ~supported
       THEN Step(Call(setError(Cur, "Web Speech API is not supported"),
                      "onError", "Web Speech API is not supported"))
       ELSE Step([Cur EXCEPT !.isInitialized = TRUE, !.effectPending = TRUE])

\* VoiceMode's effect on [isInitialized, initParticleSystem, micEnabled,
\* startListening]: auto-start listening.
VoiceModeEffect ==
    /\ mounted /\ effectPending
    /\ LET a == [Cur EXCEPT !.effectPending = FALSE] IN
       Step(IF a.isInitialized /\ a.micEnabled
            THEN startListening(a, a.isInitialized) ELSE a)

\* React commits a render with the queued voiceState and runs the effect
\* that copies it into voiceStateRef.
Commit ==
    /\ mounted /\ renderedState # voiceState
    /\ Step([Cur EXCEPT !.renderedState = voiceState,
                        !.voiceStateRef = voiceState])

\* The timeout VoiceMode's effect sets to create the particle system on the
\* canvas, which is rendered once isInitialized is.
InitParticleSystem ==
    /\ mounted /\ isInitialized /\ ~effectPending /\ ~particleSystem
    /\ Step([Cur EXCEPT !.particleSystem = TRUE])

\* The controls are rendered once isInitialized is; React runs pending
\* effects before it handles a click.
UserCanAct == mounted /\ isInitialized /\ ~effectPending

handleToggleMic ==
    /\ UserCanAct
    /\ LET a == [Cur EXCEPT !.micEnabled = ~micEnabled,
                            !.effectPending = TRUE] IN
       Step(IF ~micEnabled THEN startListening(a, isInitialized)
            ELSE stopListening(a))

handleToggleVoice ==
    /\ UserCanAct
    /\ LET a == [Cur EXCEPT !.voiceEnabled = ~voiceEnabled] IN
       Step(IF voiceEnabled THEN stopSpeaking(a) ELSE a)

handleClose ==
    /\ UserCanAct
    /\ Step(Call(stopSpeaking(stopListening(Cur)), "onClose", ""))

\* The component is unmounted: the hook's cleanup clears the debounce timer
\* (the ref keeps the handle) and destroys the AudioManager.
Unmount ==
    /\ mounted
    /\ LET a == IF stateChangeTimerRef # NoTimer
                THEN Call([ClearTimer(Cur) EXCEPT
                              !.stateChangeTimerRef = ClearedTimer],
                          "clearTimeout", "")
                ELSE Cur
           b == IF isInitialized THEN destroy(a) ELSE a
       IN Step([b EXCEPT !.mounted = FALSE])

\* destroy() is called once more on the AudioManager of a closed session
\* (the class is exported, the method public).
DestroyAgain ==
    /\ ~mounted /\ isInitialized
    /\ Step(destroy(Cur))

\* The host calls speak as returned by the hook's current render.
Speak ==
    /\ mounted /\ ~effectPending
    /\ Step(speak(Cur, isInitialized, micEnabled, "none"))

\* The host calls startListening as returned by the hook's current render.
StartListening ==
    /\ mounted /\ ~effectPending
    /\ Step(startListening(Cur, isInitialized))

\* The host calls stopSpeaking as returned by the hook.
StopSpeaking ==
    /\ mounted /\ ~effectPending
    /\ Step(stopSpeaking(Cur))

\* The utterance's end event resolves the promise speak awaits.  A cancelled
\* utterance ends with an error event or, on some engines, with an end event.
SynthEnd(u) ==
    /\ utterances[u].status \in {"speaking", "cancelled"}
    /\ LET a == [Cur EXCEPT !.utterances[u].status = "free"] IN
       Step(speakResolved(a, utterances[u].mic, utterances[u].thenMic))

SynthError(u) ==
    /\ utterances[u].status \in {"speaking", "cancelled"}
    /\ LET a == [Cur EXCEPT !.utterances[u].status = "free"] IN
       Step(speakRejected(a, utterances[u].thenMic))

\* getUserMedia resolves: initAudioContext builds the context and starts the
\* analysis loop, then startListening creates and starts the recognizer.
MicGranted ==
    /\ micRequests > 0
    /\ LET a == [Cur EXCEPT !.micRequests = @ - 1,
                            !.audioContext = TRUE,
                            !.streams = @ + 1,
                            !.animationId = TRUE,
                            !.loops = @ + 1] IN
       Step(NewRecognizer(a))

\* getUserMedia rejects: initAudioContext reports and rethrows,
\* AudioManager.startListening reports and rethrows, the hook catches.
MicDenied ==
    /\ micRequests > 0
    /\ LET a == [Cur EXCEPT !.micRequests = @ - 1]
           b == onErrorCallback(a, "Microphone access denied")
           c == onErrorCallback(b, "NotAllowedError")
       IN Step(startListeningFailed(c))

\* One frame of the analysis loop.
AudioTick(level) ==
    /\ loops > 0
    /\ Step(onAudioData(Cur, level))

DebounceFire ==
    /\ stateChangeTimerRef = 0
    /\ Step(debounceTimer(Cur))

ResponseFire ==
    /\ responseTimers # <<>>
    /\ Head(responseTimers) = 0
    /\ Step(responseTimeout([Cur EXCEPT !.responseTimers = Tail(@)]))

\* recognition.onresult of a recognizer; an engine that was told to stop may
\* still deliver what it heard.
OnResult(r, text, isFinal) ==
    /\ recognizers[r] \in {"running", "stopping"}
    /\ Step(onTranscript(Cur, text, isFinal))

\* recognition.onerror.
OnRecognitionError(r) ==
    /\ recognizers[r] \in {"running", "stopping"}
    /\ Step(onErrorCallback(Cur, "Speech recognition error"))

\* recognition.onend: the engine stopped, by stop() or by itself.  The
\* handler restarts whatever this.recognition holds now; start() on a running
\* recognizer throws and is ignored.
OnRecognitionEnd(r) ==
    /\ recognizers[r] \in {"running", "stopping"}
    /\ LET a == [Cur EXCEPT !.recognizers[r] = "inactive"] IN
       Step(IF continuous /\ a.recognition # 0
               /\ a.recognizers[a.recognition] = "inactive"
            THEN Call([a EXCEPT !.recognizers[a.recognition] = "running"],
                      "recognition.start", "")
            ELSE a)

\* The time left of every running timer.
Deadlines ==
    (IF stateChangeTimerRef >= 0 THEN {stateChangeTimerRef} ELSE {})
        \cup {responseTimers[i] : i \in 1..Len(responseTimers)}

Elapse(s, d) ==
    [s EXCEPT
        !.stateChangeTimerRef = IF @ > 0 THEN @ - d ELSE @,
        !.responseTimers = [i \in 1..Len(@) |-> @[i] - d],
        !.levelRun.ms =
            IF s.levelRun.dir = "none" THEN @
            ELSE Min(@ + d, IF s.levelRun.dir = "high"
                            THEN ENTER_DELAY ELSE EXIT_DELAY)]

\* Time passes by one step; a timer that is due fires first.
Advance ==
    /\ Deadlines # {}
    /\ 0 \notin Deadlines
    /\ Step(Elapse(Cur, TimeStep))

\* Time passes until the next timer is due.
AdvanceToDeadline ==
    /\ Deadlines # {}
    /\ 0 \notin Deadlines
    /\ Step(Elapse(Cur, MinOf(Deadlines)))

Next ==
    \/ MountEffect
    \/ VoiceModeEffect
    \/ InitParticleSystem
    \/ Commit
    \/ handleToggleMic
    \/ handleToggleVoice
    \/ handleClose
    \/ Unmount
    \/ DestroyAgain
    \/ Speak
    \/ StartListening
    \/ StopSpeaking
    \/ \E u \in Utterances : SynthEnd(u)
    \/ \E u \in Utterances : SynthError(u)
    \/ MicGranted
    \/ MicDenied
    \/ \E level \in Levels : AudioTick(level)
    \/ DebounceFire
    \/ ResponseFire
    \/ \E r \in Recognizers, text \in Texts, isFinal \in BOOLEAN :
          OnResult(r, text, isFinal)
    \/ \E r \in Recognizers : OnRecognitionError(r)
    \/ \E r \in Recognizers : OnRecognitionEnd(r)
    \/ Advance
    \/ AdvanceToDeadline
    \/ NextAgentConfig

\* The whole program.
Spec == Init /\ [][Next]_vars

\* The handlers fall into two groups that do not read each other's writes.
\* The audio callback, its debounce timer and the ref-synchronizing effect
\* read voiceStateRef, the level history and the timer handle and write
\* voiceState; the handlers of recognition and synthesis read none of these
\* (they only assign voiceState and voiceStateRef).  The specifications below
\* each run one group with the events of the other that bear on it.

InitVAD == Init /\ supported /\ ~continuous

\* Voice-activity detection while the user switches the microphone off and
\* on: start-up, audio frames, the debounce timer, time in steps of TimeStep.
NextVAD ==
    \/ MountEffect
    \/ VoiceModeEffect
    \/ Commit
    \/ handleToggleMic
    \/ MicGranted
    \/ \E level \in Levels : AudioTick(level)
    \/ DebounceFire
    \/ Advance

SpecVAD == InitVAD /\ [][NextVAD]_vars

\* Voice-activity detection while an utterance is recognized.  What was said
\* makes no difference to the audio path.
NextVADTranscript ==
    \/ MountEffect
    \/ VoiceModeEffect
    \/ Commit
    \/ MicGranted
    \/ \E level \in Levels : AudioTick(level)
    \/ DebounceFire
    \/ ResponseFire
    \/ \E r \in Recognizers : OnResult(r, "a", TRUE)
    \/ Advance

SpecVADTranscript == InitVAD /\ [][NextVADTranscript]_vars

\* Closing the session while the audio path runs: start-up, audio frames,
\* the debounce timer, unmount, and what arrives after it.
NextClose ==
    \/ MountEffect
    \/ VoiceModeEffect
    \/ Commit
    \/ MicGranted
    \/ \E level \in Levels : AudioTick(level)
    \/ DebounceFire
    \/ Advance
    \/ Unmount
    \/ DestroyAgain
    \/ \E r \in Recognizers : OnRecognitionEnd(r)

SpecClose == InitVAD /\ [][NextClose]_vars

\* The response to a transcript with the two toggles: start-up, the
\* microphone and voice-output buttons, final transcripts and the response
\* timeout.
NextResponse ==
    \/ MountEffect
    \/ VoiceModeEffect
    \/ Commit
    \/ handleToggleMic
    \/ handleToggleVoice
    \/ MicGranted
    \/ ResponseFire
    \/ \E r \in Recognizers, text \in {"a", "b"} : OnResult(r, text, TRUE)
    \/ AdvanceToDeadline

SpecResponse == Init /\ [][NextResponse]_vars

\* The same with what the browser and React do by themselves: effects and
\* renders run, time passes and a timer that is due fires.  The buttons and
\* the permission prompt wait for the user, the recognizer for speech.
FairResponse ==
    /\ WF_vars(MountEffect)
    /\ WF_vars(VoiceModeEffect)
    /\ WF_vars(Commit)
    /\ WF_vars(ResponseFire)
    /\ WF_vars(AdvanceToDeadline)

SpecResponseLive == SpecResponse /\ FairResponse

\* Speaking while the recognizer runs: start-up, the host's speak calls, the
\* utterance's events, final transcripts and the response timeout.
NextSpeakAndListen ==
    \/ MountEffect
    \/ VoiceModeEffect
    \/ Commit
    \/ MicGranted
    \/ Speak
    \/ \E u \in Utterances : SynthEnd(u)
    \/ \E u \in Utterances : SynthError(u)
    \/ \E r \in Recognizers : OnResult(r, "a", TRUE)
    \/ ResponseFire
    \/ AdvanceToDeadline

SpecSpeakAndListen == Init /\ [][NextSpeakAndListen]_vars

\* Engine errors while the audio path runs.
NextVADError ==
    \/ MountEffect
    \/ VoiceModeEffect
    \/ Commit
    \/ MicGranted
    \/ \E level \in Levels : AudioTick(level)
    \/ DebounceFire
    \/ Advance
    \/ \E r \in Recognizers : OnRecognitionError(r)

SpecVADError == InitVAD /\ [][NextVADError]_vars

\* The hook used directly, with and without the speech APIs: the mount
\* effect, the host's calls of startListening and speak, and what follows.
NextHook ==
    \/ MountEffect
    \/ VoiceModeEffect
    \/ Commit
    \/ Speak
    \/ StartListening
    \/ StopSpeaking
    \/ \E u \in Utterances : SynthEnd(u)
    \/ \E u \in Utterances : SynthError(u)
    \/ MicGranted
    \/ MicDenied
    \/ \E r \in Recognizers : OnRecognitionEnd(r)

SpecHook == Init /\ [][NextHook]_vars

\* The audio path with the visualization: start-up, the particle system,
\* audio frames, the host's speak calls and final transcripts.  No timer
\* runs out.
NextVisual ==
    \/ MountEffect
    \/ VoiceModeEffect
    \/ InitParticleSystem
    \/ Commit
    \/ MicGranted
    \/ \E level \in Levels : AudioTick(level)
    \/ Speak
    \/ \E u \in Utterances : SynthEnd(u)
    \/ \E r \in Recognizers : OnResult(r, "a", TRUE)

SpecVisual == InitVAD /\ [][NextVisual]_vars

\* The agent configuration by itself; the voice session stays as constructed.
InitConfigOnly == InitVoice /\ supported /\ ~continuous /\ InitAgentConfig

SpecAgentConfig == InitConfigOnly /\ [][NextAgentConfig]_vars

\* Recognition: microphone permission, recognizers, transcripts and the
\* response that follows them.  Only response timers run, so time passes a
\* deadline at a time.  An interim result only updates the transcript on
\* display, whatever its text, so one text stands for all.
NextRecognition ==
    \/ MountEffect
    \/ VoiceModeEffect
    \/ handleToggleMic
    \/ handleClose
    \/ Unmount
    \/ MicGranted
    \/ MicDenied
    \/ ResponseFire
    \/ \E r \in Recognizers, text \in Texts : OnResult(r, text, TRUE)
    \/ \E r \in Recognizers : OnResult(r, "a", FALSE)
    \/ \E r \in Recognizers : OnRecognitionError(r)
    \/ \E r \in Recognizers : OnRecognitionEnd(r)
    \/ AdvanceToDeadline

SpecRecognition == Init /\ [][NextRecognition]_vars

\* The same without the engine's error events, which record the error and
\* call onError and touch nothing else.
NextRecognitionQuiet ==
    \/ MountEffect
    \/ VoiceModeEffect
    \/ handleToggleMic
    \/ handleClose
    \/ Unmount
    \/ MicGranted
    \/ MicDenied
    \/ ResponseFire
    \/ \E r \in Recognizers, text \in Texts : OnResult(r, text, TRUE)
    \/ \E r \in Recognizers : OnResult(r, "a", FALSE)
    \/ \E r \in Recognizers : OnRecognitionEnd(r)
    \/ AdvanceToDeadline

SpecRecognitionQuiet == Init /\ [][NextRecognitionQuiet]_vars

\* Synthesis: the host speaks, utterances end or fail, the user toggles the
\* microphone and the voice output or closes.
NextSynthesis ==
    \/ MountEffect
    \/ VoiceModeEffect
    \/ handleToggleMic
    \/ handleToggleVoice
    \/ handleClose
    \/ Unmount
    \/ Speak
    \/ \E u \in Utterances : SynthEnd(u)
    \/ \E u \in Utterances : SynthError(u)
    \/ MicGranted
    \/ \E r \in Recognizers : OnRecognitionEnd(r)

SpecSynthesis == Init /\ [][NextSynthesis]_vars

\* ----------------------------------------------------------------- claims
\* An audio step: a frame of the analysis loop or the debounce timer firing.
AudioStep == (\E level \in Levels : AudioTick(level)) \/ DebounceFire

\* C1: an audio step never changes the state while it is speaking or
\* processing, and from idle or listening it leads only to idle or
\* listening.
C1_AudioLeavesBusyStatesAlone ==
    [][AudioStep =>
          IF voiceState \in {"speaking", "processing"}
          THEN voiceState' = voiceState
          ELSE voiceState' \in {"idle", "listening"}]_vars

\* C2: the state goes from listening to idle only when the smoothed level
\* has been below EXIT for the whole exit delay, never before.
C2_ListeningEndsAfterExitDelay ==
    [][AudioStep /\ voiceState = "listening" /\ voiceState' = "idle"
          => levelRun.dir = "low" /\ levelRun.ms >= EXIT_DELAY]_vars

\* C3: when the smoothed level rose above ENTER in idle and falls back less
\* than the enter delay later, the state has not become listening.
C3_ShortRiseStaysIdle ==
    [][(\E level \in Levels : AudioTick(level))
          /\ levelRun.dir = "high" /\ levelRun.from = "idle"
          /\ levelRun.ms < ENTER_DELAY /\ levelRun'.dir # "high"
          => voiceState # "listening" /\ voiceState' # "listening"]_vars

\* C4: the state goes from idle to listening only when the smoothed level
\* has been above ENTER for the whole enter delay, never earlier.
C4_ListeningStartsAfterEnterDelay ==
    [][AudioStep /\ voiceState = "idle" /\ voiceState' = "listening"
          => levelRun.dir = "high" /\ levelRun.ms >= ENTER_DELAY]_vars

\* In the formulas on transcripts, prevFinal' = text follows from
\* OnResult(r, text, TRUE); it stands before it because it is cheap to test.

\* What handling a forwarded transcript leaves behind: the state is
\* processing, onTextRecognized was invoked once, with that text, and the
\* recognizer the AudioManager held was told to stop and let go.
ForwardedOnce(text) ==
    /\ voiceState' = "processing"
    /\ Count(calls', "onTextRecognized") = 1
    /\ \E i \in 1..Len(calls') : calls'[i] = <<"onTextRecognized", text>>
    /\ recognition' = 0
    /\ recognition # 0 => recognizers'[recognition] # "running"

C6_RepeatedFinalIsIgnored ==
    [][\A r \in Recognizers, text \in Texts :
          OnResult(r, text, TRUE) /\ text = prevFinal
          => Count(calls', "onTextRecognized") = 0]_vars

\* C7: when the response to a recognized text is spoken with voice output
\* enabled, the state is speaking right after the call.
C7_SpeakingAfterResponse ==
    [][ResponseFire /\ voiceEnabled => voiceState' = "speaking"]_vars

\* C8: when an utterance completes the state is idle, and recognition is
\* started again exactly if the microphone is enabled at that moment.
C8_ResumeIffMicEnabled ==
    [][\A u \in Utterances :
          SynthEnd(u) /\ utterances[u].status = "speaking"
          => /\ voiceState' = "idle"
             /\ micEnabled <=>
                  Count(calls', "recognition.start")
                      + Count(calls', "getUserMedia") > 0]_vars

\* C9: when synthesis fails the error is recorded and the state is idle.
C9_SynthesisFailureReturnsToIdle ==
    [][\A u \in Utterances :
          SynthError(u) => voiceState' = "idle" /\ error' = "Failed to speak"]_vars

\* An utterance has failed.
C9_Failed ==
    /\ error = "Failed to speak"
    /\ voiceState = "idle"
    /\ \A u \in Utterances : utterances[u].status = "free"

\* C10: a refused microphone permission invokes the error callback once.
C10_PermissionFailureReportedOnce ==
    [][MicDenied => Count(calls', "onError") = 1]_vars

\* A step that calls the hook's startListening.
StartCall ==
    \/ VoiceModeEffect
    \/ handleToggleMic
    \/ ResponseFire
    \/ \E u \in Utterances : SynthEnd(u)
    \/ \E u \in Utterances : SynthError(u)

\* C11: a refused microphone permission leaves the state idle, starts no
\* analysis loop, creates and starts no recognizer and asks for the
\* microphone no more; only a start call asks for the microphone.
C11_DeniedStartLeavesNothingBehind ==
    [][/\ MicDenied =>
            /\ voiceState' = "idle" /\ voiceStateRef' = "idle"
            /\ loops' = loops /\ streams' = streams
            /\ audioContext' = audioContext
            /\ recognition' = recognition /\ recognizers' = recognizers
            /\ micRequests' = micRequests - 1
            /\ Count(calls', "getUserMedia") = 0
            /\ Count(calls', "recognition.start") = 0
       /\ micRequests' > micRequests => StartCall]_vars

\* The first start was refused.
C11_Denied ==
    /\ error = "Failed to access microphone"
    /\ Count(calls, "onError") = 2
    /\ voiceState = "idle" /\ loops = 0 /\ micRequests = 0
    /\ recognition = 0 /\ \A r \in Recognizers : recognizers[r] = "inactive"

\* C12: once the session is closed nothing it owned is active: no analysis
\* loop runs (so no amplitude callback is delivered), no microphone stream is
\* live and no recognizer is running.
C12_NothingOutlivesTheSession ==
    ~mounted =>
        /\ loops = 0
        /\ streams = 0
        /\ \A r \in Recognizers : recognizers[r] # "running"


\* C13: a second close, with nothing acquired since the first, stops no
\* recognizer, cancels no analysis loop, closes no audio context and stops
\* no stream track.
C13_SecondCloseReleasesNothing ==
    [][/\ ~audioContext /\ recognition = 0 /\ loops = 0
       /\ DestroyAgain
       => /\ Count(calls', "recognition.stop") = 0
          /\ Count(calls', "cancelAnimationFrame") = 0
          /\ Count(calls', "audioContext.close") = 0
          /\ Count(calls', "track.stop") = 0]_vars

\* The place of a cleanup step in the order the session is to be closed in;
\* 0 for a call that is no cleanup step.
CleanupRank(name) ==
    CASE name = "recognition.stop" -> 1
      [] name = "synthesis.cancel" -> 2
      [] name = "cancelAnimationFrame" -> 3
      [] name \in {"microphone.disconnect", "audioContext.close",
                   "track.stop"} -> 4
      [] name = "clearTimeout" -> 5
      [] OTHER -> 0

\* C14: closing the session stops recognition, cancels synthesis, cancels
\* the analysis loop, releases the microphone stream and clears the pending
\* debounce timer, in this order.
C14_CleanupInOrder ==
    [][Unmount =>
          \A i, j \in 1..Len(calls') :
              i < j => CleanupRank(calls'[i][1]) <= CleanupRank(calls'[j][1])]_vars


\* C15: between a call of stopListening and the next call of startListening
\* no recognizer is started, by an engine 'end' event or otherwise, whatever
\* the continuous setting.
C15_NoStartAfterStop ==
    [][lastListenCall = "stop" /\ lastListenCall' = "stop"
       => Count(calls', "recognition.start") = 0]_vars


\* C16: when a running recognizer ends by itself, in continuous mode it is
\* started again and nothing but the start happens (no transcript, no error
\* reaches the hook); in single-shot mode it stays ended.
C16_EndRestartsIffContinuous ==
    [][\A r \in Recognizers :
          recognizers[r] = "running" /\ OnRecognitionEnd(r)
          => IF continuous
             THEN /\ recognizers'[r] = "running"
                  /\ calls' = << <<"recognition.start", "">> >>
             ELSE /\ recognizers'[r] = "inactive"
                  /\ calls' = <<>>]_vars


C18_ConsistentLevelCancelsTimer ==
    [][\A level \in Levels :
          /\ pendingTimers = 1
          /\ voiceState \in {"idle", "listening"}
          /\ Indicated(voiceState, PushLevel(audioLevelHistoryRef, level))
                 = voiceState
          /\ AudioTick(level)
          => /\ pendingTimers' = 0
             /\ stateChangeTimerRef' = NoTimer
             /\ voiceState' = voiceState]_vars


\* C19: the debounce timer, when it runs, changes the state only to what the
\* rolling average indicates for the state it finds (listening above ENTER
\* in idle, idle below EXIT in listening), never while that state is
\* speaking or processing; in every case it empties the timer handle.
C19_TimerCommitsOnlyWhatIsIndicated ==
    [][DebounceFire =>
          /\ stateChangeTimerRef' = NoTimer
          /\ voiceState' =
                 IF voiceState \in {"speaking", "processing"} THEN voiceState
                 ELSE Indicated(voiceState, audioLevelHistoryRef)]_vars


\* C20: when the response is ready while the state is processing and voice
\* output is disabled, the state becomes idle, and with the microphone
\* enabled recognition is started again.
C20_ResponseWithoutVoiceGoesIdle ==
    [][/\ voiceState = "processing" /\ ~voiceEnabled
       /\ ResponseFire
       => /\ voiceState' = "idle"
          /\ micEnabled => Count(calls', "recognition.start") = 1]_vars


\* C21: in an initialized session the state does not stay processing: it
\* eventually becomes speaking or idle.
C21_ProcessingEnds ==
    (isInitialized /\ voiceState = "processing")
        ~> (voiceState \in {"speaking", "idle"})


\* C22: the continuation of speak, after the utterance ended or failed,
\* changes the state only when it is still speaking: a state set while the
\* utterance was outstanding is kept.
C22_ContinuationKeepsLaterState ==
    [][/\ voiceState # "speaking"
       /\ \E u \in Utterances : SynthEnd(u) \/ SynthError(u)
       => voiceState' = voiceState]_vars


\* C23: an error event of the recognition engine is reported (the error is
\* recorded, the host's onError is called once) and changes neither the
\* conversation state, nor the state the audio callback reads, nor the
\* pending debounce timer.
C23_EngineErrorOnlyReported ==
    [][\A r \in Recognizers :
          OnRecognitionError(r)
          => /\ error' = "Speech recognition error"
             /\ Count(calls', "onError") = 1
             /\ voiceState' = voiceState
             /\ voiceStateRef' = voiceStateRef
             /\ stateChangeTimerRef' = stateChangeTimerRef
             /\ pendingTimers' = pendingTimers
             /\ recognition' = recognition /\ recognizers' = recognizers]_vars

\* An engine error was reported while listening with a timer pending.
C23_ErrorWhileListening ==
    /\ error = "Speech recognition error"
    /\ Count(calls, "onError") = 1
    /\ voiceState = "listening"
    /\ pendingTimers = 1 /\ stateChangeTimerRef > 0


\* C24: every error (the speech APIs missing, the microphone refused, an
\* engine error of the recognizer, a failed utterance) makes the hook call
\* the host's onError.
C24_EveryErrorReachesTheHost ==
    [][\/ MountEffect /\ ~supported
       \/ MicDenied
       \/ \E r \in Recognizers : OnRecognitionError(r)
       \/ \E u \in Utterances : SynthError(u)
       => Count(calls', "onError") >= 1]_vars


\* C25: without the speech APIs the mount effect reports the error, once;
\* the session never becomes initialized, the state stays idle, and no call
\* of startListening or speak requests the microphone or creates a
\* recognizer or an utterance.
C25_UnsupportedSessionDoesNothing ==
    [][~supported =>
          /\ ~isInitialized'
          /\ voiceState' = "idle" /\ voiceStateRef' = "idle"
          /\ micRequests' = 0 /\ ~audioContext'
          /\ \A r \in Recognizers : recognizers'[r] = "inactive"
          /\ \A u \in Utterances : utterances'[u].status = "free"
          /\ calls' = IF error = "none"
                      THEN << <<"onError", "Web Speech API is not supported">> >>
                      ELSE <<>>]_vars

\* The error was reported and the host has called the hook since.
C25_CalledAfterTheError ==
    /\ ~supported
    /\ error = "Web Speech API is not supported"
    /\ calls = <<>>


\* C26: a close leaves the state idle with no recognizer running and no
\* utterance being spoken, and as long as nothing calls startListening
\* afterwards no recognizer and no utterance is started.
C26_CloseStopsEverything ==
    [][/\ handleClose =>
              /\ voiceState' = "idle"
              /\ recognition' = 0
              /\ \A r \in Recognizers : recognizers'[r] # "running"
              /\ \A u \in Utterances : utterances'[u].status # "speaking"
       /\ lastListenCall = "stop" /\ lastListenCall' = "stop" =>
              /\ Count(calls', "recognition.start") = 0
              /\ Count(calls', "synthesis.speak") = 0]_vars


\* C27: the amplitude history never holds more than HISTORY_SIZE samples and
\* is the sequence of the latest samples received while the conversation
\* state was idle or listening: a frame received in one of these states is
\* appended (the oldest sample dropped from a full history), a frame
\* received in another state and every other step leave the history alone.
C27_HistoryIsLatestAudibleSamples ==
    [][/\ Len(audioLevelHistoryRef') <= HISTORY_SIZE
       /\ \A level \in Levels :
              AudioTick(level) =>
                  audioLevelHistoryRef' =
                      IF voiceState \in {"idle", "listening"}
                      THEN PushLevel(audioLevelHistoryRef, level)
                      ELSE audioLevelHistoryRef
       /\ audioLevelHistoryRef' # audioLevelHistoryRef
              => \E level \in Levels : AudioTick(level)]_vars


\* C28: a session never holds more than one microphone stream or runs more
\* than one analysis loop, and after the close it holds no stream.
C28_OneStreamReleasedOnClose ==
    /\ streams <= 1
    /\ loops <= 1
    /\ ~mounted => streams = 0


\* The utterances being spoken.
Speaking(us) == {u \in Utterances : us[u].status = "speaking"}

\* C29: at most one utterance is being spoken; speak cancels the utterance
\* being spoken before it starts the new one; stopSpeaking cancels the
\* utterance being spoken and, with none, changes nothing and reports no
\* error.
C29_OneUtteranceAtATime ==
    [][/\ Cardinality(Speaking(utterances')) <= 1
       /\ Speak /\ isInitialized =>
              /\ \A u \in Speaking(utterances) :
                     utterances'[u].status = "cancelled"
              /\ calls' = << <<"synthesis.cancel", "">>,
                             <<"synthesis.speak", "">> >>
       /\ StopSpeaking =>
              /\ Speaking(utterances') = {}
              /\ \A u \in Speaking(utterances) :
                     utterances'[u].status = "cancelled"
              /\ Speaking(utterances) = {} =>
                     utterances' = utterances /\ error' = error]_vars

\* A second speak has cancelled the first utterance.
C29_SecondSpeak ==
    /\ utterances[1].status = "cancelled"
    /\ utterances[2].status = "speaking"
    /\ Count(calls, "synthesis.speak") = 1


\* C30: whenever an audio frame or the debounce timer runs, the state it
\* reads in voiceStateRef is the conversation state.
C30_RefIsTheState ==
    [][AudioStep => voiceStateRef = voiceState]_vars



\* C31: while an utterance started by speak is being spoken and nothing has
\* stopped it, the state is speaking: speak leaves it speaking, and the
\* continuation of an earlier speak, whose utterance a second speak
\* cancelled, does not take it away from speaking while the second utterance
\* plays.
C31_SpeakingWhileUtterancePlays ==
    [][/\ Speak /\ isInitialized => voiceState' = "speaking"
       /\ \A u \in Utterances :
              /\ voiceState = "speaking"
              /\ Speaking(utterances) \ {u} # {}
              /\ SynthEnd(u) \/ SynthError(u)
              => voiceState' = "speaking"]_vars



\* C32: at most one recognizer is running, and a running recognizer is the
\* one the AudioManager holds: every other recognizer that was started has
\* been stopped.
C32_OnlyTheHeldRecognizerRuns ==
    \A r \in Recognizers : recognizers[r] = "running" => recognition = r



\* C33: whenever the state is listening a recognizer is running; an audio
\* step never takes the state from idle to listening while none runs.
C33_ListeningMeansRecognizing ==
    voiceState = "listening" =>
        \E r \in Recognizers : recognizers[r] = "running"



\* C34: a debounce timer commits only the transition it was set for: a
\* change from idle to listening comes from a timer set in idle, a change
\* from listening to idle from a timer set in listening, whatever changed
\* the state while the timer was pending.
C34_TimerCommitsItsOwnTransition ==
    [][DebounceFire /\ voiceState' # voiceState
          => timerScheduledIn = voiceState]_vars



\* C35: an audio frame received while the state is speaking or processing
\* leaves the amplitude history, the pending debounce timer and the state as
\* they are; all it does is hand the amplitude to the particle system, which
\* (once created) gets the amplitude of every frame in every state.
C35_BusyFrameOnlyFeedsTheVisualization ==
    [][\A level \in Levels :
          AudioTick(level) =>
              /\ particleSystem =>
                     calls' = << <<"updateFrequency", level>> >>
              /\ voiceState \in {"speaking", "processing"} =>
                     /\ audioLevelHistoryRef' = audioLevelHistoryRef
                     /\ stateChangeTimerRef' = stateChangeTimerRef
                     /\ pendingTimers' = pendingTimers
                     /\ voiceState' = voiceState]_vars



\* C36: onTextRecognized is invoked, and the state moved to processing by a
\* transcript, only for a final transcript that is not blank and arrives
\* while the state is idle or listening; an interim result, a blank final
\* one and a final one arriving in speaking or processing do neither.
C36_ForwardedOnlyFromIdleOrListening ==
    [][\A r \in Recognizers, text \in Texts, isFinal \in BOOLEAN :
          /\ \/ Count(calls', "onTextRecognized") > 0
             \/ voiceState # "processing" /\ voiceState' = "processing"
          /\ OnResult(r, text, isFinal)
          => /\ isFinal
             /\ Trim(text) # ""
             /\ voiceState \in {"idle", "listening"}]_vars



\* A step of an initialized session in which the hook's startListening is
\* called: by the auto-start effect, by the microphone button, by the host,
\* by onSpeechComplete, or by the continuation of the response's speak.
StartListeningCalled ==
    \/ VoiceModeEffect /\ isInitialized /\ micEnabled
    \/ handleToggleMic /\ ~micEnabled
    \/ StartListening /\ isInitialized
    \/ \E u \in Utterances : SynthEnd(u) /\ utterances[u].mic
    \/ ResponseFire /\ isInitialized

\* C37: every call of startListening in an initialized session leaves the
\* state idle and the remembered final transcript empty, so that the first
\* final transcript after it that is not blank is forwarded to the host.
C37_StartListeningResetsTranscript ==
    [][/\ StartListeningCalled =>
              /\ voiceState' = "idle"
              /\ lastFinalTranscriptRef' = ""
       /\ \A r \in Recognizers, text \in Texts :
              /\ lastFinalTranscriptRef = "" /\ Trim(text) # ""
              /\ prevFinal' = text
              /\ OnResult(r, text, TRUE)
              => \E i \in 1..Len(calls') :
                     calls'[i] = <<"onTextRecognized", text>>]_vars



\* The update of call c is in what the storage holds.
TookEffect(c) ==
    /\ storage.present
    /\ \A f \in DOMAIN invocations[c].config :
           storage.value[invocations[c].agentType][f] = invocations[c].config[f]

\* C38: when two updateConfig calls for different agent types have both
\* completed and nothing else has written, the stored configuration holds
\* both updates, however their reads and writes interleaved.
C38_ConcurrentUpdatesBothTakeEffect ==
    \A c, d \in Invocations :
        /\ invocations[c].op = "updateConfig" /\ invocations[c].pc = "done"
        /\ invocations[d].op = "updateConfig" /\ invocations[d].pc = "done"
        /\ invocations[c].agentType # invocations[d].agentType
        /\ \A e \in Invocations \ {c, d} :
               invocations[e].op \in {"none", "getConfigs"}
        /\ invocations[c].setSeq < invocations[d].setSeq
        => TookEffect(c) /\ TookEffect(d)


\* C39: a getConfigs made after resetToDefaults completed, with no update
\* begun since, returns the original defaults of all five agent types,
\* whatever completed calls came before the reset.
C39_ResetRestoresOriginalDefaults ==
    [][\A c \in Invocations :
          /\ afterReset
          /\ invocations[c].op = "getConfigs"
          /\ \A e \in Invocations \ {c} :
                 \/ invocations[e].pc = "free"
                 \/ invocations[e].pc = "done" /\ e < c
          /\ StorageGetResolves(c) \/ StorageGetRejects(c)
          => invocations'[c].result = OriginalDefaults]_vars

====
